---------------------------- MODULE Spec2Model ----------------------------
(***************************************************************************)
(* A model of the AI documentation generator (src/extension.ts).           *)
(*                                                                         *)
(* Strings are sequences of one-character strings, lines are numbered from *)
(* 0 as in the editor (lineAt), and every regular expression of the source *)
(* is matched character by character.                                      *)
(*                                                                         *)
(*   SpecLocate  detectFunctionAtCursor over bounded documents             *)
(*   SpecParse   parseFunctionFromText over bounded texts                  *)
(*   SpecFormat  the comment block built by insertDocumentation            *)
(*   Spec        the command: overlapping invocations of the handler       *)
(***************************************************************************)
EXTENDS Integers, Sequences, FiniteSets, TLC

VARIABLES
    document,    \* SpecLocate: the document, a sequence of lines
    cursorLine,  \* SpecLocate: the cursor line handed to the locator
    located,     \* SpecLocate: what detectFunctionAtCursor returned
    text,        \* SpecParse: the text handed to the extractor
    parsed,      \* SpecParse: what parseFunctionFromText returned
    fmtArgs,     \* SpecFormat: indentation, summary and signature
    fmtDoc,      \* SpecFormat: the comment block built from them
    editorDoc,   \* Spec: the document of the active editor
    apiKey,      \* Spec: whether openaiApiKey is configured
    inv          \* Spec: the invocations of the command handler

vars == <<document, cursorLine, located, text, parsed, fmtArgs, fmtDoc,
          editorDoc, apiKey, inv>>

locVars == <<document, cursorLine, located>>
parseVars == <<text, parsed>>
fmtVars == <<fmtArgs, fmtDoc>>
flowVars == <<editorDoc, apiKey, inv>>

-----------------------------------------------------------------------------
(* Characters and strings *)

Max(a, b) == IF a >= b THEN a ELSE b

Min(S) == CHOOSE x \in S : \A y \in S : x <= y

\* \s of the regular expressions and of String.prototype.trim
Space == {" ", "\t", "\n"}

\* \w of the regular expressions
Word == {"a","b","c","d","e","f","g","h","i","j","k","l","m","n","o","p","q",
         "r","s","t","u","v","w","x","y","z","A","B","C","D","E","F","G","H",
         "I","J","K","L","M","N","O","P","Q","R","S","T","U","V","W","X","Y",
         "Z","0","1","2","3","4","5","6","7","8","9","_"}

NL == <<"\n">>

RECURSIVE Concat(_)
Concat(ss) == IF ss = <<>> THEN <<>> ELSE Head(ss) \o Concat(Tail(ss))

\* s occurs in t at position p (1-based)
IsAt(t, p, s) ==
    /\ p + Len(s) - 1 <= Len(t)
    /\ \A k \in 1..Len(s) : t[p + k - 1] = s[k]

\* end (exclusive) of the longest run of characters of C starting at p
RunEnd(t, p, C) ==
    CHOOSE q \in p..(Len(t) + 1) :
        /\ q = Len(t) + 1 \/ t[q] \notin C
        /\ \A k \in p..(q - 1) : t[k] \in C

\* end (exclusive) of the longest run of characters not in C starting at p
RunEndNot(t, p, C) ==
    CHOOSE q \in p..(Len(t) + 1) :
        /\ q = Len(t) + 1 \/ t[q] \in C
        /\ \A k \in p..(q - 1) : t[k] \notin C

\* The positions a matcher can be at after a literal, a starred or a plussed
\* character class, from any position of P (every way the regular
\* expression engine can backtrack to).
Lit(t, P, s) == {p + Len(s) : p \in {q \in P : IsAt(t, q, s)}}
Star(t, P, C) == UNION {p..RunEnd(t, p, C) : p \in P}
Plus(t, P, C) == UNION {(p + 1)..RunEnd(t, p, C) : p \in P}
StarNot(t, P, C) == UNION {p..RunEndNot(t, p, C) : p \in P}

\* String.prototype.trim
Trim(s) ==
    LET keep == {k \in 1..Len(s) : s[k] \notin Space}
    IN  IF keep = {} THEN <<>>
        ELSE SubSeq(s, Min(keep), CHOOSE k \in keep : \A j \in keep : j <= k)

\* s.split(c)[0]: the part of s before the first c
BeforeFirst(s, c) == SubSeq(s, 1, RunEndNot(s, 1, {c}) - 1)

\* s.split(c), c a single character
RECURSIVE Split(_, _)
Split(s, c) ==
    LET e == RunEndNot(s, 1, {c})
    IN  IF e > Len(s) THEN <<s>>
        ELSE <<SubSeq(s, 1, e - 1)>> \o Split(SubSeq(s, e + 1, Len(s)), c)

-----------------------------------------------------------------------------
(* Keywords and words of the source *)

kwFunction == <<"f","u","n","c","t","i","o","n">>
kwConst == <<"c","o","n","s","t">>
kwLet == <<"l","e","t">>
kwVar == <<"v","a","r">>
kwExport == <<"e","x","p","o","r","t">>
kwAsync == <<"a","s","y","n","c">>
strUnknown == <<"u","n","k","n","o","w","n">>
strVoid == <<"v","o","i","d">>
strEllipsis == <<".",".",".">>

\* (?:function|const|let|var) of the name pattern
NameKeywords == {kwFunction, kwConst, kwLet, kwVar}

-----------------------------------------------------------------------------
(* parseFunctionFromText *)

\* alternative (a) of the name pattern at position p:
\* (?:function|const|let|var)\s+(\w+); the identifier it captures, <<>> when
\* it does not match there
AltA(t, p) ==
    LET ks == {k \in NameKeywords : IsAt(t, p, k)}
    IN  IF ks = {} THEN <<>>
        ELSE LET q == p + Len(CHOOSE k \in ks : TRUE)
                 s == RunEnd(t, q, Space)
                 w == RunEnd(t, s, Word)
             IN  IF s > q /\ w > s THEN SubSeq(t, s, w - 1) ELSE <<>>

\* what follows the identifier of alternative (b), from position e:
\* \s*(?:=\s*(?:async\s*)?\(|:\s*\()
AltBTail(t, e) ==
    LET p0 == Star(t, {e}, Space)
        eq == Star(t, Lit(t, p0, <<"=">>), Space)
        as == eq \cup Star(t, Lit(t, eq, kwAsync), Space)
        co == Star(t, Lit(t, p0, <<":">>), Space)
    IN  Lit(t, as, <<"(">>) \cup Lit(t, co, <<"(">>) # {}

\* alternative (b) of the name pattern at position p: (\w+) followed by
\* AltBTail, the identifier as long as it can be
AltB(t, p) ==
    LET ends == {e \in (p + 1)..RunEnd(t, p, Word) : AltBTail(t, e)}
    IN  IF ends = {} THEN <<>>
        ELSE SubSeq(t, p, (CHOOSE e \in ends : \A f \in ends : f <= e) - 1)

\* nameMatch[1] || nameMatch[2] of a match starting at p
NameAt(t, p) == IF AltA(t, p) # <<>> THEN AltA(t, p) ELSE AltB(t, p)

\* a variant that tries alternative (a) over the whole text before (b)
ExtractNameKeywordFirst(t) ==
    LET as == {p \in 1..Len(t) : AltA(t, p) # <<>>}
        bs == {p \in 1..Len(t) : AltB(t, p) # <<>>}
    IN  IF as # {} THEN AltA(t, Min(as))
        ELSE IF bs # {} THEN AltB(t, Min(bs))
        ELSE strUnknown

\* text.match(namePattern): the match starting leftmost in the text;
\* nameMatch ? (nameMatch[1] || nameMatch[2]) : 'unknown'
ExtractName(t) ==
    LET ps == {p \in 1..Len(t) : NameAt(t, p) # <<>>}
    IN  IF ps = {} THEN strUnknown ELSE NameAt(t, Min(ps))

\* text.match(/\(([^)]*)\)/): the contents of the first parenthesized group
ParamsStr(t) ==
    LET open == RunEndNot(t, 1, {"("})
        close == RunEndNot(t, open + 1, {")"})
    IN  IF open > Len(t) \/ close > Len(t) THEN <<>>
        ELSE SubSeq(t, open + 1, close - 1)

\* p.split(':')[0].split('=')[0].trim()
ParamName(p) == Trim(BeforeFirst(BeforeFirst(p, ":"), "="))

NonEmpty(p) == Len(p) > 0

\* a variant without .filter(p => p.length > 0)
ExtractParamsNoFilter(t) ==
    LET pieces == Split(ParamsStr(t), ",")
    IN  [k \in 1..Len(pieces) |-> ParamName(Trim(pieces[k]))]

\* paramsStr.split(',').map(trim).filter(nonempty).map(paramName)
ExtractParams(t) ==
    LET pieces == Split(ParamsStr(t), ",")
        trimmed == [k \in 1..Len(pieces) |-> Trim(pieces[k])]
        kept == SelectSeq(trimmed, NonEmpty)
    IN  [k \in 1..Len(kept) |-> ParamName(kept[k])]

\* the return type captured at position p by /\):\s*(\w+(?:<[^>]+>)?)/
ReturnAt(t, p) ==
    IF ~IsAt(t, p, <<")", ":">>) THEN <<>>
    ELSE LET s == RunEnd(t, p + 2, Space)
             w == RunEnd(t, s, Word)
             g == RunEndNot(t, w + 1, {">"})
         IN  IF w = s THEN <<>>
             ELSE IF IsAt(t, w, <<"<">>) /\ g > w + 1 /\ g <= Len(t)
                  THEN SubSeq(t, s, g)
                  ELSE SubSeq(t, s, w - 1)

\* text.match(returnPattern): returnMatch ? returnMatch[1] : 'void'
ExtractReturnType(t) ==
    LET ps == {p \in 1..Len(t) : ReturnAt(t, p) # <<>>}
    IN  IF ps = {} THEN strVoid ELSE ReturnAt(t, Min(ps))

parseFunctionFromText(t) ==
    [name |-> ExtractName(t),
     params |-> ExtractParams(t),
     returnType |-> ExtractReturnType(t),
     body |-> t]

-----------------------------------------------------------------------------
(* detectFunctionAtCursor *)

Lookback == 20
ScanCap == 100

\* document.lineAt(i).text, document.lineCount
lineAt(doc, i) == doc[i + 1]
lineCount(doc) == Len(doc)

\* ^\s*(export\s+)?(const|function|let|var)\s+(\w+)\s*=?\s*(?:async\s*)?
\*  \([^)]*\)\s*(?::\s*\w+\s*)?(?:=>|{)
PatternA(l) ==
    LET p0 == Star(l, {1}, Space)
        p1 == p0 \cup Plus(l, Lit(l, p0, kwExport), Space)
        p2 == UNION {Lit(l, p1, k) : k \in NameKeywords}
        p3 == Plus(l, Plus(l, p2, Space), Word)
        p4 == Star(l, p3, Space)
        p5 == Star(l, p4 \cup Lit(l, p4, <<"=">>), Space)
        p6 == p5 \cup Star(l, Lit(l, p5, kwAsync), Space)
        p7 == Lit(l, StarNot(l, Lit(l, p6, <<"(">>), {")"}), <<")">>)
        p8 == Star(l, p7, Space)
        p9 == p8 \cup
              Star(l, Plus(l, Star(l, Lit(l, p8, <<":">>), Space), Word), Space)
    IN  Lit(l, p9, <<"=", ">">>) \cup Lit(l, p9, <<"{">>) # {}

\* ^\s*(export\s+)?(?:async\s+)?function\s+(\w+)\s*\([^)]*\)
PatternB(l) ==
    LET p0 == Star(l, {1}, Space)
        p1 == p0 \cup Plus(l, Lit(l, p0, kwExport), Space)
        p2 == p1 \cup Plus(l, Lit(l, p1, kwAsync), Space)
        p3 == Plus(l, Plus(l, Lit(l, p2, kwFunction), Space), Word)
        p4 == Lit(l, Star(l, p3, Space), <<"(">>)
    IN  Lit(l, StarNot(l, p4, {")"}), <<")">>) # {}

\* for (const pattern of functionPatterns) if (pattern.test(lineText))
functionPatterns(l) == PatternA(l) \/ PatternB(l)

\* a variant of the backward search that stops one line short of the window
RECURSIVE SearchBackwardsShort(_, _, _)
SearchBackwardsShort(doc, cursor, i) ==
    IF i <= Max(0, cursor - Lookback) THEN -1
    ELSE IF functionPatterns(lineAt(doc, i)) THEN i
    ELSE SearchBackwardsShort(doc, cursor, i - 1)

\* for (let i = cursorLine; i >= Math.max(0, cursorLine - 20); i--):
\* the line found, -1 when foundFunction stays false
RECURSIVE SearchBackwards(_, _, _)
SearchBackwards(doc, cursor, i) ==
    IF i < Max(0, cursor - Lookback) THEN -1
    ELSE IF functionPatterns(lineAt(doc, i)) THEN i
    ELSE SearchBackwards(doc, cursor, i - 1)

Count(l, c) == Cardinality({k \in 1..Len(l) : l[k] = c})

\* the change of braceCount over one line
BraceDelta(l) == Count(l, "{") - Count(l, "}")

\* The body of the forward loop for line i, braceCount coming in: the brace
\* count going out and whether the loop breaks there (with endLine = i, or
\* at the cap).
ScanLine(doc, startLine, i, braceCount) ==
    LET l == lineAt(doc, i)
        bc == braceCount + BraceDelta(l)
    IN  IF bc = 0 /\ Count(l, "{") > 0
        THEN [stopped |-> TRUE, endLine |-> i, last |-> i, braceCount |-> bc]
        ELSE IF i - startLine > ScanCap
        THEN [stopped |-> TRUE, endLine |-> startLine, last |-> i,
              braceCount |-> bc]
        ELSE [stopped |-> FALSE, endLine |-> startLine, last |-> i,
              braceCount |-> bc]

\* The forward loop over lines a..b in order, braceCount coming in: the
\* lines of the second half are visited only when the first half did not
\* break.
RECURSIVE ScanLines(_, _, _, _, _)
ScanLines(doc, startLine, a, b, braceCount) ==
    IF a = b THEN ScanLine(doc, startLine, a, braceCount)
    ELSE LET mid == (a + b) \div 2
             first == ScanLines(doc, startLine, a, mid, braceCount)
         IN  IF first.stopped THEN first
             ELSE ScanLines(doc, startLine, mid + 1, b, first.braceCount)

\* for (let i = startLine; i < document.lineCount; i++): endLine and the
\* last line appended to functionText
ScanForwards(doc, startLine) ==
    ScanLines(doc, startLine, startLine, lineCount(doc) - 1, 0)

\* lines a..b of the document, each followed by a newline
RECURSIVE TextOfLines(_, _, _)
TextOfLines(doc, a, b) ==
    IF a > b THEN <<>>
    ELSE IF a = b THEN lineAt(doc, a) \o NL
    ELSE TextOfLines(doc, a, (a + b) \div 2)
         \o TextOfLines(doc, (a + b) \div 2 + 1, b)

\* The result: found is FALSE for null; endLine and linesRead (the number of
\* lines of functionText) are the locals of the forward scan.
detectFunctionAtCursor(doc, cursor) ==
    LET startLine == SearchBackwards(doc, cursor, cursor)
        scan == ScanForwards(doc, startLine)
    IN  IF startLine = -1
        THEN [done |-> TRUE, found |-> FALSE, startLine |-> 0, endLine |-> 0,
              linesRead |-> 0,
              functionInfo |-> [name |-> <<>>, params |-> <<>>,
                                returnType |-> <<>>, body |-> <<>>]]
        ELSE [done |-> TRUE, found |-> TRUE, startLine |-> startLine,
              endLine |-> scan.endLine,
              linesRead |-> scan.last - startLine + 1,
              functionInfo |->
                  parseFunctionFromText(TextOfLines(doc, startLine, scan.last))]

-----------------------------------------------------------------------------
(* insertDocumentation *)

docOpen == <<"/","*","*">>
docSummaryOpen == <<" ","*"," ","<","s","u","m","m","a","r","y",">">>
docLead == <<" ","*"," ">>
docSummaryClose == <<" ","*"," ","<","/","s","u","m","m","a","r","y",">">>
docParamOpen == <<" ","*"," ","<","p","a","r","a","m"," ","n","a","m","e","=",
                  "\"">>
docParamClose == <<"\"",">","<","/","p","a","r","a","m",">">>
docReturns == <<" ","*"," ","<","r","e","t","u","r","n","s",">","<","/","r",
                "e","t","u","r","n","s",">">>
docClose == <<" ","*","/">>

\* lineText.match(/^\s*/)?.[0] || ''
IndentOf(l) == SubSeq(l, 1, RunEnd(l, 1, Space) - 1)

\* for (const param of functionInfo.params) if (param && param !== '...')
RECURSIVE ParamTags(_, _)
ParamTags(indent, params) ==
    IF params = <<>> THEN <<>>
    ELSE (IF Head(params) # <<>> /\ Head(params) # strEllipsis
          THEN indent \o docParamOpen \o Head(params) \o docParamClose \o NL
          ELSE <<>>)
         \o ParamTags(indent, Tail(params))

\* a variant that emits the <returns> tag whatever the return type
BuildDocAlwaysReturns(indent, summary, params, returnType) ==
    indent \o docOpen \o NL
    \o indent \o docSummaryOpen \o NL
    \o indent \o docLead \o summary \o NL
    \o indent \o docSummaryClose \o NL
    \o ParamTags(indent, params)
    \o indent \o docReturns \o NL
    \o indent \o docClose \o NL

\* the string doc built by insertDocumentation
BuildDoc(indent, summary, params, returnType) ==
    indent \o docOpen \o NL
    \o indent \o docSummaryOpen \o NL
    \o indent \o docLead \o summary \o NL
    \o indent \o docSummaryClose \o NL
    \o ParamTags(indent, params)
    \o (IF returnType # strVoid THEN indent \o docReturns \o NL ELSE <<>>)
    \o indent \o docClose \o NL

\* edit.insert(document.uri, new Position(line, 0), doc), applied: the pieces
\* of doc between newlines become lines, the last piece is put in front of
\* the line the position is on
InsertAt(lines, line, doc) ==
    LET pieces == Split(doc, "\n")
        n == Len(pieces)
    IN  SubSeq(lines, 1, line)
        \o SubSeq(pieces, 1, n - 1)
        \o <<pieces[n] \o lineAt(lines, line)>>
        \o SubSeq(lines, line + 2, Len(lines))

-----------------------------------------------------------------------------
(* The command handler and generateDocumentation *)

strGeneratedSummary == <<"G","e","n","e","r","a","t","e","d"," ","s","u","m",
                         "m","a","r","y">>

\* response.choices[0]?.message?.content?.trim() || 'Generated summary'
SummaryOf(content) ==
    IF Trim(content) = <<>> THEN strGeneratedSummary ELSE Trim(content)

\* An invocation of the handler: where it is suspended (pc), the locals of
\* generateDocumentation, the text of the edit it submitted, what it has
\* shown and requested so far, and what happened to it.
NewInvocation ==
    [pc |-> "idle",
     emptySel |-> TRUE, selLine |-> 0, found |-> FALSE,
     functionInfo |-> [name |-> <<>>, params |-> <<>>, returnType |-> <<>>,
                       body |-> <<>>],
     insertLine |-> 0, doc |-> <<>>, below |-> <<>>,
     errors |-> 0, infos |-> 0, progress |-> 0,
     issued |-> 0, outstanding |-> 0, edits |-> 0,
     entered |-> FALSE, requestFailed |-> FALSE, editThrew |-> FALSE]

\* the locals of an invocation that has returned
Returned(r) ==
    [r EXCEPT !.functionInfo = NewInvocation.functionInfo, !.doc = <<>>,
              !.insertLine = 0, !.selLine = 0, !.below = <<>>]

\* a variant of the top-level handler with an empty catch block
CaughtSilently(r) == Returned([r EXCEPT !.pc = "done"])

\* catch (error) { vscode.window.showErrorMessage(`Error: ...`) }
Caught(r) == Returned([r EXCEPT !.errors = @ + 1, !.pc = "done"])

\* a variant without the return: reading result.functionInfo of null then
\* throws, and the top-level catch shows a second error
NoFunctionShownTwice(r) ==
    Returned([r EXCEPT !.errors = @ + 2, !.pc = "done"])

\* if (!result) { vscode.window.showErrorMessage('Place cursor ...'); return; }
NoFunction(r) == Returned([r EXCEPT !.errors = @ + 1, !.pc = "done"])

\* a variant without the await in front of generateSummaryWithChatGPT: the
\* task goes on to insertDocumentation with the request still outstanding
RequestNotAwaited(r, key) ==
    IF ~key THEN Caught([r EXCEPT !.progress = @ + 1])
    ELSE [r EXCEPT !.progress = @ + 1, !.issued = @ + 1,
                   !.outstanding = @ + 1, !.pc = "applying"]

\* withProgress(..., async () => { const summary = await
\* generateSummaryWithChatGPT(functionInfo); ... }) up to the await of
\* openai.chat.completions.create
StartRequest(r, key) ==
    IF ~key THEN Caught([r EXCEPT !.progress = @ + 1])
    ELSE [r EXCEPT !.progress = @ + 1, !.issued = @ + 1,
                   !.outstanding = @ + 1, !.pc = "request"]

\* document.getText(selection) of a selection of the whole line a
SelectedText(lines, a) == lineAt(lines, a)

\* generateDocumentation up to its first await
generateDocumentation(r, lines, key, empty, line) ==
    LET result == detectFunctionAtCursor(lines, line)
        r0 == [r EXCEPT !.entered = TRUE, !.emptySel = empty,
                        !.selLine = line]
    IN  IF empty
        THEN IF ~result.found THEN NoFunction(r0)
             ELSE StartRequest([r0 EXCEPT !.found = TRUE,
                                   !.functionInfo = result.functionInfo,
                                   !.insertLine = result.startLine], key)
        ELSE StartRequest([r0 EXCEPT
                 !.functionInfo =
                     parseFunctionFromText(SelectedText(lines, line)),
                 !.insertLine = line], key)

\* insertDocumentation up to the await of applyEdit: the comment block, with
\* the indentation of the line now at the insertion line
insertDocumentation(r, lines, summary) ==
    IF r.insertLine >= lineCount(lines) THEN Caught(r)
    ELSE [r EXCEPT !.pc = "applying",
              !.doc = BuildDoc(IndentOf(lineAt(lines, r.insertLine)), summary,
                               r.functionInfo.params,
                               r.functionInfo.returnType)]

-----------------------------------------------------------------------------
(* Values of the variables a specification does not use *)

NoInfo == [name |-> <<>>, params |-> <<>>, returnType |-> <<>>, body |-> <<>>]

NotLocated == [done |-> FALSE, found |-> FALSE, startLine |-> 0,
               endLine |-> 0, linesRead |-> 0, functionInfo |-> NoInfo]

NotParsed == [done |-> FALSE, info |-> NoInfo]

NoFmtArgs == [indent |-> <<>>, summary |-> <<>>, params |-> <<>>,
              returnType |-> <<>>]

IdleLocate == document = <<>> /\ cursorLine = 0 /\ located = NotLocated
IdleParse == text = <<>> /\ parsed = NotParsed
IdleFormat == fmtArgs = NoFmtArgs /\ fmtDoc = <<>>
IdleFlow == editorDoc = <<>> /\ apiKey = FALSE /\ inv = <<>>

-----------------------------------------------------------------------------
(* SpecParse: parseFunctionFromText applied to bounded texts *)

MaxNameFrags == 4
MaxPieces == 3

ScenarioA == <<"f","u","n","c","t","i","o","n"," ","a","d","d","(","a",",",
               " ","b",")"," ","{"," ","r","e","t","u","r","n"," ","a"," ",
               "+"," ","b",";"," ","}">>
ScenarioB == <<"c","o","n","s","t"," ","m","u","l"," ","="," ","(","a",":",
               " ","n","u","m","b","e","r",","," ","b",":"," ","n","u","m",
               "b","e","r",")",":"," ","n","u","m","b","e","r"," ","=",">",
               " ","{"," ","r","e","t","u","r","n"," ","a","*","b",";"," ",
               "}">>

\* pieces of text around a name
NameFrags == {<<"l","e","t"," ","f">>, <<"l","e","t"," ">>, <<"g">>, <<" ">>,
              <<"=">>, <<":">>, <<"(">>}

NameTexts ==
    {Concat(fs) : fs \in UNION {[1..n -> NameFrags] : n \in 0..MaxNameFrags}}

\* pieces of a parameter list
ParamPieces == {<<"a">>, <<" ","b",":"," ","n","u","m","b","e","r">>,
                <<" ","c"," ","="," ","5">>, <<" ">>, <<":","t">>,
                <<"x","=","1">>}

RECURSIVE Join(_)
Join(ps) ==
    IF ps = <<>> THEN <<>>
    ELSE IF Len(ps) = 1 THEN ps[1]
    ELSE ps[1] \o <<",">> \o Join(Tail(ps))

ParamTexts ==
    {pre \o <<"(">> \o Join(ps) \o post :
        pre \in {<<>>, <<"f">>},
        ps \in UNION {[1..n -> ParamPieces] : n \in 0..MaxPieces},
        post \in {<<")">>, <<")"," ","(","z",")">>, <<>>}}

ParseInputs == NameTexts \cup ParamTexts \cup {ScenarioA, ScenarioB}

InitParse ==
    /\ text \in ParseInputs
    /\ parsed = NotParsed
    /\ IdleLocate /\ IdleFormat /\ IdleFlow

Parse ==
    /\ ~parsed.done
    /\ parsed' = [done |-> TRUE, info |-> parseFunctionFromText(text)]
    /\ UNCHANGED <<text, locVars, fmtVars, flowVars>>

NextParse == Parse

SpecParse == InitParse /\ [][NextParse]_vars

-----------------------------------------------------------------------------
(* Claims about parseFunctionFromText *)

\* positions of the text where alternative (a), (b) of the name pattern match
PositionsA == {p \in 1..Len(text) : AltA(text, p) # <<>>}
PositionsB == {p \in 1..Len(text) : AltB(text, p) # <<>>}

\* C4 as stated: alternative (a) wins wherever it matches in the text, even
\* when a match of (b) starts earlier; only (b): its identifier; neither:
\* "unknown".
C4_KeywordFirst ==
    parsed.done =>
        parsed.info.name =
            IF PositionsA # {} THEN AltA(text, Min(PositionsA))
            ELSE IF PositionsB # {} THEN AltB(text, Min(PositionsB))
            ELSE strUnknown

\* C4 amended: the name is the identifier of the match that starts leftmost
\* in the text, whichever alternative it is a match of: the first (a) match
\* when no (b) match starts before it, the first (b) match when it starts
\* before every (a) match, and "unknown" when neither alternative matches.
C4_LeftmostMatch ==
    parsed.done =>
        LET name == parsed.info.name
        IN  /\ PositionsA \cup PositionsB = {} => name = strUnknown
            /\ \A p \in PositionsA :
                   (\A q \in PositionsA \cup PositionsB : p <= q)
                       => name = AltA(text, p)
            /\ \A p \in PositionsB :
                   (/\ \A q \in PositionsB : p <= q
                    /\ \A q \in PositionsA : p < q)
                       => name = AltB(text, p)

\* a (b) match starting before an (a) match: g=(let f is named g
C4_Witness ==
    /\ parsed.done
    /\ text = <<"g","=","(","l","e","t"," ","f">>
    /\ PositionsA = {4} /\ 1 \in PositionsB
    /\ parsed.info.name = <<"g">>

\* the k-th smallest element of a set of numbers
Nth(S, k) == CHOOSE x \in S : Cardinality({y \in S : y < x}) = k - 1

\* C5: params are the names of the non-blank comma-separated pieces of the
\* first parenthesized group (up to the first ")"), each cut at its first
\* ":" or "=" and trimmed, in the order written; no group, no params; and
\* "(a, b: number, c = 5)" yields a, b, c.
C5_ParamsInOrder ==
    parsed.done =>
        LET ps == parsed.info.params
            opens == {i \in 1..Len(text) : text[i] = "("}
            open == Min(opens)
            closes == {j \in 1..Len(text) : text[j] = ")" /\ j > open}
            close == Min(closes)
            seps == {open, close} \cup
                    {k \in (open + 1)..(close - 1) : text[k] = ","}
            Piece(m) == SubSeq(text, Nth(seps, m) + 1, Nth(seps, m + 1) - 1)
            kept == {m \in 1..(Cardinality(seps) - 1) :
                        \E k \in 1..Len(Piece(m)) : Piece(m)[k] \notin Space}
            Cut(p) == SubSeq(p, 1, RunEndNot(p, 1, {":", "="}) - 1)
        IN  /\ (opens = {} \/ closes = {}) => ps = <<>>
            /\ (opens # {} /\ closes # {}) =>
                   /\ Len(ps) = Cardinality(kept)
                   /\ \A k \in 1..Len(ps) : ps[k] = Trim(Cut(Piece(Nth(kept, k))))
            /\ text = <<"(","a",","," ","b",":"," ","n","u","m","b","e","r",",",
                        " ","c"," ","="," ","5",")">>
                   => ps = << <<"a">>, <<"b">>, <<"c">> >>

\* a blank piece dropped between two named ones, after a typed parameter
C5_Witness ==
    /\ parsed.done
    /\ text = <<"(", " ","b",":"," ","n","u","m","b","e","r", ",", " ", ",",
                "x","=","1", ")">>
    /\ parsed.info.params = << <<"b">>, <<"x">> >>
-----------------------------------------------------------------------------
(* SpecLocate: detectFunctionAtCursor applied to bounded documents *)

MaxSegs == 3
MaxRun == 1

lnDeclOpen == <<"f","u","n","c","t","i","o","n"," ","f","(",")","{">>
lnDeclBare == <<"f","u","n","c","t","i","o","n"," ","g","(",")">>
lnOneLiner == <<"l","e","t"," ","h","=","(",")","=",">","{","}">>
lnIfOpen == <<"i","f","(","x",")","{">>
lnClose == <<"}">>
lnStmt == <<"x",";">>

\* A document is a sequence of at most MaxSegs segments: one line of code, or
\* a run of statements, short or just long enough to cross the lookback
\* window or the cap of the forward scan.
RunLengths == (1..MaxRun) \cup {Lookback, ScanCap}

Segments ==
    {<<l>> : l \in {lnDeclOpen, lnDeclBare, lnOneLiner, lnIfOpen, lnClose}}
    \cup {[k \in 1..n |-> lnStmt] : n \in RunLengths}

Documents ==
    {Concat(ss) : ss \in UNION {[1..n -> Segments] : n \in 1..MaxSegs}}

\* the first and the last line of every run of equal lines
CursorLines(doc) ==
    {i \in 0..(Len(doc) - 1) :
        \/ i = 0 \/ i = Len(doc) - 1
        \/ lineAt(doc, i) # lineAt(doc, i - 1)
        \/ lineAt(doc, i) # lineAt(doc, i + 1)}

InitLocate ==
    /\ document \in Documents
    /\ cursorLine = 0
    /\ located = NotLocated
    /\ IdleParse /\ IdleFormat /\ IdleFlow

Detect(c) ==
    /\ ~located.done
    /\ cursorLine' = c
    /\ located' = detectFunctionAtCursor(document, c)
    /\ UNCHANGED <<document, parseVars, fmtVars, flowVars>>

NextLocate == \E c \in CursorLines(document) : Detect(c)

SpecLocate == InitLocate /\ [][NextLocate]_vars

-----------------------------------------------------------------------------
(* Claims about detectFunctionAtCursor *)

\* braceCount after line i, counted from line s
CountUpTo(doc, s, i, c) ==
    Cardinality(UNION {{<<j, k>> : k \in {k \in 1..Len(lineAt(doc, j)) :
                                             lineAt(doc, j)[k] = c}} :
                       j \in s..i})

BracesUpTo(doc, s, i) == CountUpTo(doc, s, i, "{") - CountUpTo(doc, s, i, "}")

\* the lines at which the brace count, counted from line s, is back at zero
\* with a "{" opened at or before them
ClosingLines(doc, s) ==
    {i \in s..(Len(doc) - 1) :
        /\ BracesUpTo(doc, s, i) = 0
        /\ \E j \in s..i : Count(lineAt(doc, j), "{") > 0}

\* every "{" from line s on has its "}" on the same or a later line
BraceBalanced(doc, s) ==
    /\ ClosingLines(doc, s) # {}
    /\ BracesUpTo(doc, s, Len(doc) - 1) = 0
    /\ \A i \in s..(Len(doc) - 1) : BracesUpTo(doc, s, i) >= 0

\* C1: when the braces from the declaration line on are balanced, the text
\* span ends at the first line at which the brace count is back at zero after
\* a "{" was opened, never earlier and never later.
C1_StopsAtClosingBrace ==
    (located.done /\ located.found
     /\ BraceBalanced(document, located.startLine)) =>
        located.startLine + located.linesRead - 1
            = Min(ClosingLines(document, located.startLine))

\* the lines of the lookback window that match a declaration pattern
WindowHits ==
    {j \in Max(0, cursorLine - Lookback)..cursorLine :
        functionPatterns(lineAt(document, j))}

\* C2: the result is null exactly when no line of the cursor line and the 20
\* lines above it matches pattern A or B; otherwise startLine is the matching
\* line nearest to the cursor, at or above it.
C2_NearestDeclaration ==
    located.done =>
        /\ ~located.found <=> WindowHits = {}
        /\ located.found =>
               /\ located.startLine \in WindowHits
               /\ \A j \in WindowHits : j <= located.startLine
               /\ located.startLine <= cursorLine
               /\ cursorLine - located.startLine <= Lookback

\* a declaration exactly 20 lines above the cursor is found, with another
\* declaration further up that is not preferred
C2_Witness ==
    /\ located.done /\ located.found
    /\ cursorLine - located.startLine = Lookback
    /\ located.startLine > 0
    /\ functionPatterns(lineAt(document, 0))

\* a declaration 21 lines above the cursor is out of the window: null
C2_WitnessNull ==
    /\ located.done /\ ~located.found
    /\ cursorLine > Lookback
    /\ functionPatterns(lineAt(document, cursorLine - Lookback - 1))

\* C3: the forward scan reads at most 100 lines from the declaration line on.
C3_AtMostCapLines ==
    (located.done /\ located.found) => located.linesRead <= ScanCap

-----------------------------------------------------------------------------
(* SpecFormat: the comment block of insertDocumentation on bounded inputs *)

MaxParams == 2

strAddsTwoNumbers == <<"A","d","d","s"," ","t","w","o"," ","n","u","m","b",
                       "e","r","s",".">>

\* what the completion service returns as content: none, or text to trim
Contents == {<<>>, <<" ","A","d","d","s"," ","t","w","o"," ","n","u","m","b",
                    "e","r","s",".","\n">>}
strNumber == <<"n","u","m","b","e","r">>

FmtInputs ==
    [indent : {<<>>, <<" "," ">>},
     summary : {SummaryOf(c) : c \in Contents},
     params : UNION {[1..n -> {<<"a">>, <<"b">>, <<>>, strEllipsis}] :
                        n \in 0..MaxParams},
     returnType : {strVoid, strNumber}]

InitFormat ==
    /\ fmtArgs \in FmtInputs
    /\ fmtDoc = <<>>
    /\ IdleLocate /\ IdleParse /\ IdleFlow

Format ==
    /\ fmtDoc = <<>>
    /\ fmtDoc' = BuildDoc(fmtArgs.indent, fmtArgs.summary, fmtArgs.params,
                          fmtArgs.returnType)
    /\ UNCHANGED <<fmtArgs, locVars, parseVars, flowVars>>

NextFormat == Format

SpecFormat == InitFormat /\ [][NextFormat]_vars

-----------------------------------------------------------------------------
(* Claims about the comment block *)

\* the lines of a block of text, each ended by a newline
LinesOf(doc) == SubSeq(Split(doc, "\n"), 1, Len(Split(doc, "\n")) - 1)

ScenarioC ==
    /\ fmtDoc # <<>>
    /\ fmtArgs = [indent |-> <<>>, summary |-> strAddsTwoNumbers,
                  params |-> << <<"a">>, <<"b">> >>, returnType |-> strVoid]

IsParamTag(l) == \E p \in 1..Len(l) : IsAt(l, p, <<"<","p","a","r","a","m">>)
IsReturnsTag(l) ==
    \E p \in 1..Len(l) : IsAt(l, p, <<"<","r","e","t","u","r","n","s",">">>)

\* the general rule of C6: a <returns> tag only when returnType is not "void",
\* and one <param> tag for each parameter name that is neither empty nor
\* "...", in extraction order
TagRule ==
    fmtDoc # <<>> =>
        LET ls == LinesOf(fmtDoc)
            named == SelectSeq(fmtArgs.params,
                               LAMBDA p : p # <<>> /\ p # strEllipsis)
            tags == SelectSeq(ls, IsParamTag)
        IN  /\ (\E k \in 1..Len(ls) : IsReturnsTag(ls[k]))
                   <=> fmtArgs.returnType # strVoid
            /\ Cardinality({k \in 1..Len(ls) : IsReturnsTag(ls[k])}) <= 1
            /\ Len(tags) = Len(named)
            /\ \A k \in 1..Len(tags) :
                   tags[k] = fmtArgs.indent \o docParamOpen \o named[k]
                             \o docParamClose

C6_WitnessTags ==
    /\ fmtDoc # <<>>
    /\ fmtArgs.params = << strEllipsis, <<"b">> >>
    /\ fmtArgs.returnType = strNumber
    /\ Len(LinesOf(fmtDoc)) = 7

-----------------------------------------------------------------------------
(* Spec: invocations of the command on one editor *)

MaxInv == 2
MaxFar == 1

lnAddOpen == <<"f","u","n","c","t","i","o","n"," ","a","d","d","(","a",",",
               " ","b",")"," ","{">>
lnIndentedOpen == <<" "," ","l","e","t"," ","k","=","(","x",")",":","T","=",
                    ">","{">>

\* a declaration below a statement; an indented declaration with a return
\* type; a declaration with the cursor up to 25 lines below it and further
EditorDocs ==
    {<<lnStmt, lnAddOpen, lnClose>>, <<lnIndentedOpen, lnClose>>}
    \cup {<<lnDeclOpen>> \o [k \in 1..(Lookback + 4 + n) |-> lnStmt] :
             n \in 1..MaxFar}

\* what the completion service returns as content
FlowContents == {<<" ","A","d","d","s"," ","t","w","o"," ","n","u","m","b",
                   "e","r","s",".","\n">>}

Inv == 1..MaxInv

Init ==
    /\ editorDoc \in EditorDocs
    /\ apiKey \in BOOLEAN
    /\ inv = [i \in Inv |-> NewInvocation]
    /\ IdleLocate /\ IdleParse /\ IdleFormat

\* The selections tried: the cursor on the first line, on the last line or
\* on a declaration line, and the first declaration line selected.
DeclLines(doc) ==
    {i \in 0..(Len(doc) - 1) : functionPatterns(lineAt(doc, i))}

Selections(doc) ==
    {[empty |-> TRUE, line |-> c] :
        c \in {0, Len(doc) - 1} \cup DeclLines(doc)}
    \cup {[empty |-> FALSE, line |-> a] :
              a \in {d \in DeclLines(doc) : \A e \in DeclLines(doc) : d <= e}}

\* the command is invoked with no active editor
InvokeNoEditor(i) ==
    /\ inv[i].pc = "idle"
    /\ \A j \in Inv : j < i => inv[j].pc # "idle"
    /\ inv' = [inv EXCEPT ![i] = [@ EXCEPT !.errors = @ + 1, !.pc = "done"]]
    /\ UNCHANGED <<editorDoc, apiKey, locVars, parseVars, fmtVars>>

\* the command is invoked with no API key configured: showInputBox
InvokeNoKey(i) ==
    /\ inv[i].pc = "idle"
    /\ \A j \in Inv : j < i => inv[j].pc # "idle"
    /\ ~apiKey
    /\ inv' = [inv EXCEPT ![i].pc = "prompt"]
    /\ UNCHANGED <<editorDoc, apiKey, locVars, parseVars, fmtVars>>

\* the command is invoked with the API key configured
Invoke(i) ==
    /\ inv[i].pc = "idle"
    /\ \A j \in Inv : j < i => inv[j].pc # "idle"
    /\ apiKey
    /\ \E sel \in Selections(editorDoc) :
           inv' = [inv EXCEPT
                      ![i] = generateDocumentation(inv[i], editorDoc, apiKey,
                                                   sel.empty, sel.line)]
    /\ UNCHANGED <<editorDoc, apiKey, locVars, parseVars, fmtVars>>

\* the input box is dismissed or left empty
PromptCancelled(i) ==
    /\ inv[i].pc = "prompt"
    /\ inv' = [inv EXCEPT ![i] = [@ EXCEPT !.errors = @ + 1, !.pc = "done"]]
    /\ UNCHANGED <<editorDoc, apiKey, locVars, parseVars, fmtVars>>

\* a key is entered: config.update(...) is awaited
PromptAnswered(i) ==
    /\ inv[i].pc = "prompt"
    /\ inv' = [inv EXCEPT ![i].pc = "update"]
    /\ UNCHANGED <<editorDoc, apiKey, locVars, parseVars, fmtVars>>

\* the key is stored and the handler goes on to generateDocumentation
ConfigUpdated(i) ==
    /\ inv[i].pc = "update"
    /\ apiKey' = TRUE
    /\ \E sel \in Selections(editorDoc) :
           inv' = [inv EXCEPT
                      ![i] = generateDocumentation(inv[i], editorDoc, TRUE,
                                                   sel.empty, sel.line)]
    /\ UNCHANGED <<editorDoc, locVars, parseVars, fmtVars>>

\* the completion request returns: insertDocumentation runs up to applyEdit
RequestReturns(i) ==
    /\ inv[i].pc = "request"
    /\ \E content \in FlowContents :
           inv' = [inv EXCEPT
                      ![i] = insertDocumentation(
                                 [@ EXCEPT !.outstanding = @ - 1], editorDoc,
                                 SummaryOf(content))]
    /\ UNCHANGED <<editorDoc, apiKey, locVars, parseVars, fmtVars>>

\* the completion request fails: the rejection reaches the top-level catch
RequestFails(i) ==
    /\ inv[i].pc = "request"
    /\ inv' = [inv EXCEPT
                  ![i] = Caught([@ EXCEPT !.outstanding = @ - 1,
                                          !.requestFailed = TRUE])]
    /\ UNCHANGED <<editorDoc, apiKey, locVars, parseVars, fmtVars>>

\* the edit is applied to the document; applyEdit resolves
EditApplied(i) ==
    /\ inv[i].pc = "applying"
    /\ inv[i].insertLine < lineCount(editorDoc)
    /\ editorDoc' = InsertAt(editorDoc, inv[i].insertLine, inv[i].doc)
    /\ inv' = [inv EXCEPT
                  ![i] = [@ EXCEPT
                      !.edits = @ + 1, !.pc = "applied",
                      !.below = lineAt(editorDoc',
                                       inv[i].insertLine
                                       + Count(inv[i].doc, "\n"))]]
    /\ UNCHANGED <<apiKey, locVars, parseVars, fmtVars>>

\* applyEdit resolves to false: the edit was not applied
EditRefused(i) ==
    /\ inv[i].pc = "applying"
    /\ inv' = [inv EXCEPT ![i].pc = "applied"]
    /\ UNCHANGED <<editorDoc, apiKey, locVars, parseVars, fmtVars>>

\* applyEdit rejects: the rejection reaches the top-level catch
EditThrows(i) ==
    /\ inv[i].pc = "applying"
    /\ inv' = [inv EXCEPT ![i] = Caught([@ EXCEPT !.editThrew = TRUE])]
    /\ UNCHANGED <<editorDoc, apiKey, locVars, parseVars, fmtVars>>

\* withProgress resolves: showInformationMessage('Documentation generated
\* successfully!')
ShowSuccess(i) ==
    /\ inv[i].pc = "applied"
    /\ inv' = [inv EXCEPT
                  ![i] = Returned([@ EXCEPT !.infos = @ + 1, !.pc = "done"])]
    /\ UNCHANGED <<editorDoc, apiKey, locVars, parseVars, fmtVars>>

Next ==
    \E i \in Inv :
        \/ InvokeNoEditor(i)
        \/ InvokeNoKey(i)
        \/ Invoke(i)
        \/ PromptCancelled(i)
        \/ PromptAnswered(i)
        \/ ConfigUpdated(i)
        \/ RequestReturns(i)
        \/ RequestFails(i)
        \/ EditApplied(i)
        \/ EditRefused(i)
        \/ EditThrows(i)
        \/ ShowSuccess(i)

Spec == Init /\ [][Next]_vars

-----------------------------------------------------------------------------
(* Claims about the command *)

RECURSIVE SumOutstanding(_)
SumOutstanding(n) ==
    IF n = 0 THEN 0 ELSE inv[n].outstanding + SumOutstanding(n - 1)

\* the invocations that have started and not yet ended
InFlight == {i \in Inv : inv[i].pc \notin {"idle", "done"}}

\* C7: an invocation with an empty selection for which detectFunctionAtCursor
\* returned null shows exactly one error and ends: no completion request, no
\* edit, no progress notification, no success notification.
C7_NoFunctionIsNoOp ==
    \A i \in Inv :
        (inv[i].entered /\ inv[i].emptySel /\ ~inv[i].found) =>
            /\ inv[i].pc = "done"
            /\ inv[i].errors = 1
            /\ inv[i].issued = 0 /\ inv[i].outstanding = 0
            /\ inv[i].edits = 0
            /\ inv[i].progress = 0
            /\ inv[i].infos = 0

\* Scenario D: the cursor on the last line of a document whose only
\* declaration is 25 lines above it
C7_Witness ==
    /\ Len(editorDoc) = Lookback + 6
    /\ DeclLines(editorDoc) = {0}
    /\ inv[1].entered /\ inv[1].emptySel /\ ~inv[1].found
    /\ inv[1].pc = "done" /\ inv[1].errors = 1

\* C8: a failed completion request ends the invocation: one request in all,
\* no edit, no success notification, exactly one error notification; an edit
\* application that throws gives exactly one error and no success
\* notification; and the success notification is shown only after the
\* request returned and applyEdit completed without an exception.
C8_FailureIsTerminal ==
    \A i \in Inv :
        /\ inv[i].requestFailed =>
               /\ inv[i].pc = "done"
               /\ inv[i].issued = 1 /\ inv[i].outstanding = 0
               /\ inv[i].edits = 0
               /\ inv[i].infos = 0
               /\ inv[i].errors = 1
        /\ inv[i].editThrew =>
               /\ inv[i].pc = "done"
               /\ inv[i].infos = 0
               /\ inv[i].errors = 1
        /\ inv[i].infos > 0 =>
               /\ inv[i].infos = 1
               /\ inv[i].issued = 1 /\ inv[i].outstanding = 0
               /\ ~inv[i].requestFailed /\ ~inv[i].editThrew
               /\ inv[i].errors = 0

\* one invocation whose request failed and one whose edit threw
C8_Witness ==
    \E i, j \in Inv :
        /\ inv[i].requestFailed /\ inv[i].pc = "done"
        /\ inv[j].editThrew /\ inv[j].pc = "done" /\ inv[j].issued = 1

\* C9 as stated: in every state, overlapping invocations included, at most
\* one completion request is outstanding.
C9_AtMostOneOutstanding == SumOutstanding(MaxInv) <= 1

\* C9 amended: every invocation has at most one outstanding completion
\* request, issues at most one, and has one outstanding exactly while it is
\* suspended awaiting it; the requests outstanding in the whole system are
\* as many as the invocations awaiting one, so at most as many as the
\* invocations in flight.
C9_OneOutstandingPerInvocation ==
    /\ \A i \in Inv :
           /\ inv[i].outstanding <= 1
           /\ inv[i].issued <= 1
           /\ inv[i].outstanding = 1 <=> inv[i].pc = "request"
    /\ SumOutstanding(MaxInv) <= Cardinality(InFlight)

\* two invocations, each awaiting its own request
C9_Witness ==
    /\ inv[1].pc = "request" /\ inv[2].pc = "request"
    /\ SumOutstanding(MaxInv) = 2

\* the declaration line detectFunctionAtCursor found: the first line of the
\* function text
DeclarationOf(r) == BeforeFirst(r.functionInfo.body, "\n")

\* C10: when an invocation with an empty selection has its edit applied, the
\* line below the closing delimiter of its block is the declaration line it
\* found, also when the document changed since the detection.
C10_BlockAboveFunction ==
    \A i \in Inv :
        (inv[i].pc = "applied" /\ inv[i].edits = 1 /\ inv[i].emptySel) =>
            inv[i].below = DeclarationOf(inv[i])

=============================================================================
